---- MODULE Spec2Model ----
(***************************************************************************)
(* Warbler (cooperspinelli/flask-warbler): the request handlers of app.py  *)
(* over the four relations of models.py (users, messages, follows, likes)  *)
(* and the per-client session cookie that names the current principal.     *)
(*                                                                         *)
(* Every handler is one action: before_request (add_user_to_g), the body   *)
(* of the view function, and the commit or rollback it ends with.          *)
(* Rendering is not modelled; a response is the status, the template or    *)
(* redirect target, the flash message the handler issued and, for the home *)
(* page, the list of messages handed to the template.                      *)
(*                                                                         *)
(* Spec handles one request at a time.  SpecConc splits start_following    *)
(* and toggle_message_like at the point where they have read the table and *)
(* not yet committed, and lets two such requests overlap.                  *)
(*                                                                         *)
(* Columns no handler branches on (image_url, header_image_url, bio,       *)
(* location, Message.text) are left out; form fields are taken as valid,   *)
(* so validate_on_submit stands for the forgery token alone.               *)
(***************************************************************************)
EXTENDS Bags, FiniteSets, Integers, Sequences, TLC

(***************************************************************************)
(* Bounds of the model.                                                    *)
(***************************************************************************)
\* users.id values the autoincrement sequence may hand out
MaxUsers == 2
\* messages.id values the autoincrement sequence may hand out
MaxMsgs == 2
\* distinct values of datetime.utcnow a message may be stamped with
MaxTime == 2

Clients == {"c1", "c2"}
\* requests the server may be handling at the same time
Workers == {"w1", "w2"}
Usernames == {"ann", "bob"}
Emails == {"a@x", "b@x"}
Passwords == {"pw1"}
Attempts == Passwords \cup {"wrong"}
Times == 1..MaxTime
\* ids a request may name in its URL: the allocatable ones and one beyond
UrlUserIds == 1..(MaxUsers + 1)
UrlMsgIds == 1..(MaxMsgs + 1)

\* the value of g.user when nobody is logged in, and of a session without
\* the CURR_USER_KEY entry
None == 0

\* a worker that is handling no request
Idle == [pc |-> "idle", c |-> "", id |-> None]

\* .limit(100) of the home page query
FEED_LIMIT == 100

VARIABLES
    users,       \* users table: id -> [username, email, password]
    nextUserId,  \* next value of users.id autoincrement
    messages,    \* messages table: id -> [user_id, timestamp]
    nextMsgId,   \* next value of messages.id autoincrement
    follows,     \* follows table: bag of <<being_followed_id, following_id>>
    likes,       \* likes table: bag of <<user_id, message_id>>
    session,     \* per client: session[CURR_USER_KEY], or None when absent
    endpoint,    \* request.endpoint of the latest request
    response,    \* what the latest request returned
    inflight     \* requests that have read the database and not yet committed

vars == <<users, nextUserId, messages, nextMsgId, follows, likes, session,
          endpoint, response, inflight>>

persisted == <<users, messages, follows, likes>>

(***************************************************************************)
(* Responses.                                                              *)
(***************************************************************************)
Response(status, body, id, flash, msgs) ==
    [status |-> status, body |-> body, id |-> id, flash |-> flash,
     messages |-> msgs]

Redirect(path, id, flash) == Response(302, path, id, flash, <<>>)

Render(template, flash) == Response(200, template, 0, flash, <<>>)

Abort(code) == Response(code, "error", 0, "", <<>>)

UncaughtIntegrityError == Response(500, "IntegrityError", 0, "", <<>>)

AccessUnauthorized == Redirect("/", 0, "Access unauthorized!")

\* no request has been answered since the last response left
NoResponse == Render("none", "")

(***************************************************************************)
(* The tables.                                                             *)
(***************************************************************************)
\* INSERT into a table whose whole row is the primary key
InsertRow(table, row) ==
    IF BagIn(row, table)
    THEN [ok |-> FALSE, table |-> table]
    ELSE [ok |-> TRUE, table |-> table (+) SetToBag({row})]

\* DELETE of the given rows
DeleteRows(table, doomed) ==
    [r \in DOMAIN table \ doomed |-> table[r]]

InsertUser_m(tbl, id, rec) ==
    IF \E u \in DOMAIN tbl : tbl[u].username = rec.username
    THEN [ok |-> FALSE, table |-> tbl]
    ELSE [ok |-> TRUE, table |-> [u \in DOMAIN tbl \cup {id} |->
                                    IF u = id THEN rec ELSE tbl[u]]]

\* INSERT into users: username and email are unique
InsertUser(tbl, id, rec) ==
    IF \E u \in DOMAIN tbl :
           tbl[u].username = rec.username \/ tbl[u].email = rec.email
    THEN [ok |-> FALSE, table |-> tbl]
    ELSE [ok |-> TRUE, table |-> [u \in DOMAIN tbl \cup {id} |->
                                    IF u = id THEN rec ELSE tbl[u]]]

\* UPDATE of one users row: username and email stay unique
UpdateUser(tbl, id, rec) ==
    IF \E u \in DOMAIN tbl \ {id} :
           tbl[u].username = rec.username \/ tbl[u].email = rec.email
    THEN [ok |-> FALSE, table |-> tbl]
    ELSE [ok |-> TRUE, table |-> [tbl EXCEPT ![id] = rec]]

(***************************************************************************)
(* models.py                                                               *)
(***************************************************************************)
generate_password_hash(password) == <<"bcrypt", password>>

check_password_hash(hash, password) == hash = <<"bcrypt", password>>

\* User.signup: the row to add
User_signup(username, email, password) ==
    [username |-> username, email |-> email,
     password |-> generate_password_hash(password)]

\* User.authenticate: the id of the user, or None
authenticate(username, password) ==
    LET found == {u \in DOMAIN users : users[u].username = username}
    IN  IF found = {} THEN None
        ELSE LET u == CHOOSE x \in found : TRUE
             IN  IF check_password_hash(users[u].password, password)
                 THEN u ELSE None

\* self.followers and self.following of the relationship "followers"
followers(tbl, u) == {x \in DOMAIN tbl : x[1] = u}

following(tbl, u) == {x \in DOMAIN tbl : x[2] = u}

is_followed_by(tbl, self, other) ==
    LET found_user_list == {x \in followers(tbl, self) : x[2] = other}
    IN  (IF found_user_list = {} THEN 0
         ELSE CopiesIn(<<self, other>>, tbl)) = 1

is_following(tbl, self, other) ==
    LET found_user_list == {x \in following(tbl, self) : x[1] = other}
    IN  (IF found_user_list = {} THEN 0
         ELSE CopiesIn(<<other, self>>, tbl)) = 1

has_liked(tbl, self, message) == BagIn(<<self, message>>, tbl)

(***************************************************************************)
(* app.py: before_request and the session helpers                          *)
(***************************************************************************)
\* add_user_to_g: User.query.get(session[CURR_USER_KEY]), or None
g_user(c) ==
    IF session[c] # None /\ session[c] \in DOMAIN users THEN session[c]
    ELSE None

do_login(s, c, u) == [s EXCEPT ![c] = u]

do_logout(s, c) == [s EXCEPT ![c] = None]

\* form.validate_on_submit(): a POST whose CSRF token matches the session
validate_on_submit(csrf) == csrf

Init ==
    /\ users = <<>>
    /\ nextUserId = 1
    /\ messages = <<>>
    /\ nextMsgId = 1
    /\ follows = EmptyBag
    /\ likes = EmptyBag
    /\ session = [c \in Clients |-> None]
    /\ endpoint = "none"
    /\ response = NoResponse
    /\ inflight = [w \in Workers |-> Idle]

signup(c, username, email, password, csrf) ==
    LET s1 == do_logout(session, c)
        r == InsertUser(users, nextUserId,
                        User_signup(username, email, password))
    IN  /\ (validate_on_submit(csrf) /\ r.ok) => nextUserId <= MaxUsers
        /\ IF validate_on_submit(csrf)
           THEN IF r.ok
                THEN /\ users' = r.table
                     /\ nextUserId' = nextUserId + 1
                     /\ session' = do_login(s1, c, nextUserId)
                     /\ response' = Redirect("/", 0, "")
                ELSE /\ session' = s1
                     /\ response' = Render("users/signup.html",
                                           "Username or email already taken")
                     /\ UNCHANGED <<users, nextUserId>>
           ELSE /\ session' = s1
                /\ response' = Render("users/signup.html", "")
                /\ UNCHANGED <<users, nextUserId>>
        /\ endpoint' = "signup"
        /\ UNCHANGED <<messages, nextMsgId, follows, likes, inflight>>

login(c, username, password, csrf) ==
    LET user == authenticate(username, password)
    IN  /\ IF validate_on_submit(csrf)
           THEN IF user # None
                THEN /\ session' = do_login(session, c, user)
                     /\ response' = Redirect("/", 0, "Hello")
                ELSE /\ response' = Render("users/login.html",
                                           "Invalid credentials.")
                     /\ UNCHANGED session
           ELSE /\ response' = Render("users/login.html", "")
                /\ UNCHANGED session
        /\ endpoint' = "login"
        /\ UNCHANGED <<users, nextUserId, messages, nextMsgId, follows,
                       likes, inflight>>

logout(c, csrf) ==
    /\ IF g_user(c) = None
       THEN /\ response' = AccessUnauthorized
            /\ UNCHANGED session
       ELSE IF validate_on_submit(csrf)
            THEN /\ session' = do_logout(session, c)
                 /\ response' = Redirect("/login", 0, "Succesfully logged out")
            ELSE /\ response' = Abort(401)
                 /\ UNCHANGED session
    /\ endpoint' = "logout"
    /\ UNCHANGED <<users, nextUserId, messages, nextMsgId, follows, likes,
                   inflight>>

(***************************************************************************)
(* app.py: follow and unfollow                                             *)
(***************************************************************************)
following_append_m(tbl, me, followed_user) ==
    InsertRow(tbl, <<me, followed_user>>)

\* g.user.following.append(followed_user); db.session.commit()
following_append(tbl, me, followed_user) ==
    InsertRow(tbl, <<followed_user, me>>)

\* g.user.following.remove(followed_user); db.session.commit()
following_remove(tbl, me, followed_user) ==
    DeleteRows(tbl, {<<followed_user, me>>})

is_self_follow_m(me, follow_id) == FALSE

\* if g.user.id == follow_id
is_self_follow(me, follow_id) == me = follow_id

start_following(c, follow_id, csrf) ==
    LET me == g_user(c)
        r == following_append(follows, me, follow_id)
    IN  /\ IF me = None
           THEN /\ response' = AccessUnauthorized
                /\ UNCHANGED follows
           ELSE IF is_self_follow(me, follow_id)
           THEN /\ response' = Redirect("/", 0, "You cannot follow yourself!")
                /\ UNCHANGED follows
           ELSE IF ~validate_on_submit(csrf)
           THEN /\ response' = Abort(401)
                /\ UNCHANGED follows
           ELSE IF follow_id \notin DOMAIN users
           THEN /\ response' = Abort(404)
                /\ UNCHANGED follows
           ELSE IF is_following(follows, me, follow_id)
           THEN /\ response' = Redirect("/users/<id>/following", me,
                                 "You are already following that person!")
                /\ UNCHANGED follows
           ELSE IF r.ok
           THEN /\ follows' = r.table
                /\ response' = Redirect("/users/<id>/following", me, "")
           ELSE /\ response' = UncaughtIntegrityError
                /\ UNCHANGED follows
        /\ endpoint' = "start_following"
        /\ UNCHANGED <<users, nextUserId, messages, nextMsgId, likes, session,
                       inflight>>

stop_following(c, follow_id, csrf) ==
    LET me == g_user(c)
    IN  /\ IF me = None
           THEN /\ response' = AccessUnauthorized
                /\ UNCHANGED follows
           ELSE IF ~validate_on_submit(csrf)
           THEN /\ response' = Abort(401)
                /\ UNCHANGED follows
           ELSE IF follow_id \notin DOMAIN users
           THEN /\ response' = Abort(404)
                /\ UNCHANGED follows
           ELSE IF is_following(follows, me, follow_id)
           THEN /\ follows' = following_remove(follows, me, follow_id)
                /\ response' = Redirect("/users/<id>/following", me, "")
           ELSE /\ response' = Redirect("/users/<id>/following", me,
                    "You cannot unfollow someone that you are not following")
                /\ UNCHANGED follows
        /\ endpoint' = "stop_following"
        /\ UNCHANGED <<users, nextUserId, messages, nextMsgId, likes, session,
                       inflight>>

(***************************************************************************)
(* app.py: profile                                                         *)
(***************************************************************************)
edit_profile(c, username, email, psw, csrf) ==
    LET me == g_user(c)
        user == authenticate(users[me].username, psw)
        r == UpdateUser(users, user,
                 [users[user] EXCEPT !.username = username, !.email = email])
    IN  /\ IF me = None
           THEN /\ response' = AccessUnauthorized
                /\ UNCHANGED users
           ELSE IF ~validate_on_submit(csrf)
           THEN /\ response' = Render("users/edit.html", "")
                /\ UNCHANGED users
           ELSE IF user = None
           THEN /\ response' = Render("users/edit.html", "Incorrect password")
                /\ UNCHANGED users
           ELSE IF r.ok
           THEN /\ users' = r.table
                /\ response' = Redirect("/users/<id>", user, "")
           ELSE /\ response' = Render("users/edit.html",
                                      "Username or email already taken")
                /\ UNCHANGED users
        /\ endpoint' = "edit_profile"
        /\ UNCHANGED <<nextUserId, messages, nextMsgId, follows, likes,
                       session, inflight>>

\* Message.query.filter_by(user_id=...).delete(): the rows go, and the
\* likes that reference them go with them (ondelete="cascade")
delete_messages_of(db, user_id) ==
    LET gone == {m \in DOMAIN db.messages : db.messages[m].user_id = user_id}
    IN  [db EXCEPT
            !.messages = [m \in DOMAIN db.messages \ gone |-> db.messages[m]],
            !.likes = DeleteRows(db.likes,
                                 {x \in DOMAIN db.likes : x[2] \in gone})]

\* db.session.delete(user): refused while a message still references the
\* user (messages.user_id has no cascade and is not nullable); the follows
\* and likes that reference the user go with it
session_delete_user(db, u) ==
    IF \E m \in DOMAIN db.messages : db.messages[m].user_id = u
    THEN [ok |-> FALSE, db |-> db]
    ELSE [ok |-> TRUE, db |->
            [db EXCEPT
                !.users = [x \in DOMAIN db.users \ {u} |-> db.users[x]],
                !.follows = DeleteRows(db.follows,
                               {x \in DOMAIN db.follows :
                                    x[1] = u \/ x[2] = u}),
                !.likes = DeleteRows(db.likes,
                               {x \in DOMAIN db.likes : x[1] = u})]]

session_delete_message_m(db, m) ==
    [db EXCEPT
        !.messages = [x \in DOMAIN db.messages \ {m} |-> db.messages[x]]]

\* db.session.delete(msg): the likes that reference the message go with it
session_delete_message(db, m) ==
    [db EXCEPT
        !.messages = [x \in DOMAIN db.messages \ {m} |-> db.messages[x]],
        !.likes = DeleteRows(db.likes, {x \in DOMAIN db.likes : x[2] = m})]

database == [users |-> users, messages |-> messages, follows |-> follows,
             likes |-> likes]

commit(db) ==
    /\ users' = db.users
    /\ messages' = db.messages
    /\ follows' = db.follows
    /\ likes' = db.likes

delete_user(c, csrf) ==
    LET me == g_user(c)
        r == session_delete_user(delete_messages_of(database, me), me)
    IN  /\ IF me = None
           THEN /\ response' = AccessUnauthorized
                /\ UNCHANGED <<persisted, session>>
           ELSE IF ~validate_on_submit(csrf)
           THEN /\ response' = Abort(401)
                /\ UNCHANGED <<persisted, session>>
           ELSE IF r.ok
           THEN /\ session' = do_logout(session, c)
                /\ commit(r.db)
                /\ response' = Redirect("/signup", 0, "")
           ELSE /\ session' = do_logout(session, c)
                /\ response' = UncaughtIntegrityError
                /\ UNCHANGED persisted
        /\ endpoint' = "delete_user"
        /\ UNCHANGED <<nextUserId, nextMsgId, inflight>>

(***************************************************************************)
(* app.py: messages and likes                                              *)
(***************************************************************************)
add_message(c, timestamp, csrf) ==
    LET me == g_user(c)
    IN  /\ (me # None /\ validate_on_submit(csrf)) => nextMsgId <= MaxMsgs
        /\ IF me = None
           THEN /\ response' = AccessUnauthorized
                /\ UNCHANGED <<messages, nextMsgId>>
           ELSE IF validate_on_submit(csrf)
           THEN /\ messages' = [m \in DOMAIN messages \cup {nextMsgId} |->
                                  IF m = nextMsgId
                                  THEN [user_id |-> me, timestamp |-> timestamp]
                                  ELSE messages[m]]
                /\ nextMsgId' = nextMsgId + 1
                /\ response' = Redirect("/users/<id>", me, "")
           ELSE /\ response' = Render("messages/create.html", "")
                /\ UNCHANGED <<messages, nextMsgId>>
        /\ endpoint' = "add_message"
        /\ UNCHANGED <<users, nextUserId, follows, likes, session, inflight>>

owns_message_m(me, message_id) == TRUE

\* the negation of "if msg.user_id != g.user.id"
owns_message(me, message_id) == messages[message_id].user_id = me

delete_message(c, message_id, csrf) ==
    LET me == g_user(c)
    IN  /\ IF message_id \notin DOMAIN messages
           THEN /\ response' = Abort(404)
                /\ UNCHANGED persisted
           ELSE IF me = None
           THEN /\ response' = AccessUnauthorized
                /\ UNCHANGED persisted
           ELSE IF ~owns_message(me, message_id)
           THEN /\ response' = Abort(401)
                /\ UNCHANGED persisted
           ELSE IF validate_on_submit(csrf)
           THEN /\ commit(session_delete_message(database, message_id))
                /\ response' = Redirect("/users/<id>", me, "Message deleted!")
           ELSE /\ response' = Abort(401)
                /\ UNCHANGED persisted
        /\ endpoint' = "delete_message"
        /\ UNCHANGED <<nextUserId, nextMsgId, session, inflight>>

\* g.user.likes.append(msg); db.session.commit()
likes_append(tbl, me, msg) == InsertRow(tbl, <<me, msg>>)

\* g.user.likes.remove(msg); db.session.commit()
likes_remove(tbl, me, msg) == DeleteRows(tbl, {<<me, msg>>})

toggle_m(tbl, me, msg) == likes_append(tbl, me, msg)

\* the if/else of toggle_message_like and its commit
toggle(tbl, me, msg) ==
    IF has_liked(tbl, me, msg)
    THEN [ok |-> TRUE, table |-> likes_remove(tbl, me, msg)]
    ELSE likes_append(tbl, me, msg)

toggle_message_like(c, message_id, csrf) ==
    LET me == g_user(c)
        r == toggle(likes, me, message_id)
    IN  /\ IF me = None
           THEN /\ response' = AccessUnauthorized
                /\ UNCHANGED likes
           ELSE IF message_id \notin DOMAIN messages
           THEN /\ response' = Abort(404)
                /\ UNCHANGED likes
           ELSE IF ~validate_on_submit(csrf)
           THEN /\ response' = Abort(401)
                /\ UNCHANGED likes
           ELSE IF me = messages[message_id].user_id
           THEN /\ response' = Redirect("origin_url", 0,
                                        "Cannot like your own messages!")
                /\ UNCHANGED likes
           ELSE IF r.ok
           THEN /\ likes' = r.table
                /\ response' = Redirect("origin_url", 0, "")
           ELSE /\ response' = UncaughtIntegrityError
                /\ UNCHANGED likes
        /\ endpoint' = "toggle_message_like"
        /\ UNCHANGED <<users, nextUserId, messages, nextMsgId, follows,
                       session, inflight>>

(***************************************************************************)
(* app.py: home page                                                       *)
(***************************************************************************)
Min(a, b) == IF a < b THEN a ELSE b

order_by_timestamp_desc_m(msgs, rows) ==
    {f \in [1..Cardinality(rows) -> rows] :
        /\ \A i, j \in 1..Cardinality(rows) : i # j => f[i] # f[j]
        /\ \A i, j \in 1..Cardinality(rows) :
              i < j => msgs[f[i]].timestamp <= msgs[f[j]].timestamp}

\* the rows of a query with .order_by(Message.timestamp.desc()): rows of
\* equal timestamp come in whatever order the database yields them
order_by_timestamp_desc(msgs, rows) ==
    {f \in [1..Cardinality(rows) -> rows] :
        /\ \A i, j \in 1..Cardinality(rows) : i # j => f[i] # f[j]
        /\ \A i, j \in 1..Cardinality(rows) :
              i < j => msgs[f[i]].timestamp >= msgs[f[j]].timestamp}

limit(f, n) == SubSeq(f, 1, Min(n, Len(f)))

\* the lists the query of homepage can return for g.user = u
homeFeed(db, u, n) ==
    LET ids == {x[1] : x \in following(db.follows, u)} \cup {u}
        rows == {m \in DOMAIN db.messages : db.messages[m].user_id \in ids}
    IN  {limit(f, n) : f \in order_by_timestamp_desc(db.messages, rows)}

homepage(c) ==
    LET me == g_user(c)
    IN  /\ IF me # None
           THEN \E f \in homeFeed(database, me, FEED_LIMIT) :
                    response' = Response(200, "home.html", 0, "", f)
           ELSE response' = Render("home-anon.html", "")
        /\ endpoint' = "homepage"
        /\ UNCHANGED <<users, nextUserId, messages, nextMsgId, follows,
                       likes, session, inflight>>

\* after_request: the response leaves the server; the process handles the
\* next request once the one before is answered
add_header ==
    /\ endpoint # "none"
    /\ endpoint' = "none"
    /\ response' = NoResponse
    /\ UNCHANGED <<users, nextUserId, messages, nextMsgId, follows, likes,
                   session, inflight>>

\* the process is handling no request
Ready == endpoint = "none"

\* one request, handled from before_request to the commit or rollback, or
\* the response to it leaving
Next ==
    \/ /\ Ready
       /\ \E c \in Clients, n \in Usernames, e \in Emails, p \in Passwords,
                csrf \in BOOLEAN : signup(c, n, e, p, csrf)
    \/ /\ Ready
       /\ \E c \in Clients, n \in Usernames, p \in Attempts, csrf \in BOOLEAN :
                login(c, n, p, csrf)
    \/ /\ Ready
       /\ \E c \in Clients, csrf \in BOOLEAN : logout(c, csrf)
    \/ /\ Ready
       /\ \E c \in Clients, id \in UrlUserIds, csrf \in BOOLEAN :
                start_following(c, id, csrf)
    \/ /\ Ready
       /\ \E c \in Clients, id \in UrlUserIds, csrf \in BOOLEAN :
                stop_following(c, id, csrf)
    \/ /\ Ready
       /\ \E c \in Clients, n \in Usernames, e \in Emails, p \in Attempts,
                csrf \in BOOLEAN : edit_profile(c, n, e, p, csrf)
    \/ /\ Ready
       /\ \E c \in Clients, csrf \in BOOLEAN : delete_user(c, csrf)
    \/ /\ Ready
       /\ \E c \in Clients, t \in Times, csrf \in BOOLEAN :
                add_message(c, t, csrf)
    \/ /\ Ready
       /\ \E c \in Clients, m \in UrlMsgIds, csrf \in BOOLEAN :
                delete_message(c, m, csrf)
    \/ /\ Ready
       /\ \E c \in Clients, m \in UrlMsgIds, csrf \in BOOLEAN :
                toggle_message_like(c, m, csrf)
    \/ /\ Ready
       /\ \E c \in Clients : homepage(c)
    \/ add_header

Spec == Init /\ [][Next]_vars

(***************************************************************************)
(* Two requests handled at the same time.  A request that reaches          *)
(* following.append or likes.append has read the table (is_following,      *)
(* has_liked) in its own transaction; its INSERT takes effect at commit,   *)
(* after whatever the other request has committed in between.              *)
(***************************************************************************)
\* start_following up to the else branch of "if g.user.is_following(...)"
begin_following(w, c, follow_id) ==
    LET me == g_user(c)
    IN  /\ inflight[w] = Idle
        /\ me # None
        /\ me # follow_id
        /\ follow_id \in DOMAIN users
        /\ ~is_following(follows, me, follow_id)
        /\ inflight' = [inflight EXCEPT ![w] =
                           [pc |-> "following.append", c |-> c,
                            id |-> follow_id]]
        /\ UNCHANGED <<users, nextUserId, messages, nextMsgId, follows,
                       likes, session, endpoint, response>>

\* g.user.following.append(followed_user); db.session.commit(), which no
\* try/except surrounds
commit_following(w) ==
    LET me == g_user(inflight[w].c)
        r == following_append(follows, me, inflight[w].id)
    IN  /\ inflight[w].pc = "following.append"
        /\ IF r.ok
           THEN /\ follows' = r.table
                /\ response' = Redirect("/users/<id>/following", me, "")
           ELSE /\ response' = UncaughtIntegrityError
                /\ UNCHANGED follows
        /\ endpoint' = "start_following"
        /\ inflight' = [inflight EXCEPT ![w] = Idle]
        /\ UNCHANGED <<users, nextUserId, messages, nextMsgId, likes,
                       session>>

\* toggle_message_like up to the else branch of "if g.user.has_liked(msg)"
begin_like(w, c, message_id) ==
    LET me == g_user(c)
    IN  /\ inflight[w] = Idle
        /\ me # None
        /\ message_id \in DOMAIN messages
        /\ me # messages[message_id].user_id
        /\ ~has_liked(likes, me, message_id)
        /\ inflight' = [inflight EXCEPT ![w] =
                           [pc |-> "likes.append", c |-> c,
                            id |-> message_id]]
        /\ UNCHANGED <<users, nextUserId, messages, nextMsgId, follows,
                       likes, session, endpoint, response>>

\* g.user.likes.append(msg); db.session.commit(), which no try/except
\* surrounds
commit_like(w) ==
    LET me == g_user(inflight[w].c)
        r == likes_append(likes, me, inflight[w].id)
    IN  /\ inflight[w].pc = "likes.append"
        /\ IF r.ok
           THEN /\ likes' = r.table
                /\ response' = Redirect("origin_url", 0, "")
           ELSE /\ response' = UncaughtIntegrityError
                /\ UNCHANGED likes
        /\ endpoint' = "toggle_message_like"
        /\ inflight' = [inflight EXCEPT ![w] = Idle]
        /\ UNCHANGED <<users, nextUserId, messages, nextMsgId, follows,
                       session>>

\* two users, a message of the second, and every client logged in
ConcInit ==
    /\ users = (1 :> User_signup("ann", "a@x", "pw1")) @@
               (2 :> User_signup("bob", "b@x", "pw1"))
    /\ nextUserId = 3
    /\ messages = (1 :> [user_id |-> 2, timestamp |-> 1])
    /\ nextMsgId = 2
    /\ follows = EmptyBag
    /\ likes = EmptyBag
    /\ session \in [Clients -> {1, 2}]
    /\ endpoint = "none"
    /\ response = NoResponse
    /\ inflight = [w \in Workers |-> Idle]

NextConc ==
    \/ \E w \in Workers, c \in Clients, id \in UrlUserIds :
          begin_following(w, c, id)
    \/ \E w \in Workers : commit_following(w)
    \/ \E w \in Workers, c \in Clients, m \in UrlMsgIds :
          begin_like(w, c, m)
    \/ \E w \in Workers : commit_like(w)
    \/ \E c \in Clients, id \in UrlUserIds, csrf \in BOOLEAN :
          stop_following(c, id, csrf)
    \/ \E c \in Clients, m \in UrlMsgIds, csrf \in BOOLEAN :
          toggle_message_like(c, m, csrf)

SpecConc == ConcInit /\ [][NextConc]_vars

(***************************************************************************)
(* Properties.                                                             *)
(***************************************************************************)
\* the outcomes the application reports as "not permitted": the flash
\* "Access unauthorized!" with a redirect home, and the 401 page
IsUnauthorized(r) == r = AccessUnauthorized \/ r = Abort(401)

\* some user already has this username or this email
Taken(username, email) ==
    \E u \in DOMAIN users :
        users[u].username = username \/ users[u].email = email

\* C1: a signup that reuses the username or the email of an existing user
\* leaves users, messages, follows and likes exactly as they were (no new
\* user row), and when the form was submitted validly it is answered with
\* "Username or email already taken".
C1_DuplicateSignupFails ==
    [][\A c \in Clients, n \in Usernames, e \in Emails, p \in Passwords,
          csrf \in BOOLEAN :
          (endpoint' = "signup" /\ Taken(n, e) /\ signup(c, n, e, p, csrf)) =>
              /\ persisted' = persisted
              /\ DOMAIN users' = DOMAIN users
              /\ csrf => response' = Render("users/signup.html",
                                            "Username or email already taken")
      ]_vars

\* a signup has just been refused for its username or email
C1_Witness ==
    /\ endpoint = "signup"
    /\ response.flash = "Username or email already taken"
    /\ users # <<>>

\* C2: for a logged-in user a and an existing user b other than a, after
\* a's follow request for b (past the forgery guard) is_following(a, b)
\* holds, after a's unfollow request it does not, whether or not the edge
\* was there before; and is_followed_by(b, a) always equals
\* is_following(a, b).
C2_FollowThenFollowing ==
    /\ [](\A a, b \in DOMAIN users :
            is_followed_by(follows, b, a) = is_following(follows, a, b))
    /\ [][\A c \in Clients, b \in UrlUserIds :
            LET a == g_user(c)
            IN  (a # None /\ b \in DOMAIN users /\ b # a) =>
                  /\ (endpoint' = "start_following"
                        /\ start_following(c, b, TRUE)) =>
                         is_following(follows', a, b)
                  /\ (endpoint' = "stop_following"
                        /\ stop_following(c, b, TRUE)) =>
                         ~is_following(follows', a, b)
        ]_vars

\* a follow request has just added an edge
C2_Witness ==
    /\ endpoint = "start_following"
    /\ response.body = "/users/<id>/following"
    /\ response.flash = ""
    /\ \E b \in DOMAIN users : is_following(follows, response.id, b)

\* C3: the follow relation never holds a pair (u, u) nor the same pair
\* twice, and a follow request of a logged-in user for their own id is
\* answered "You cannot follow yourself!" and leaves the relation as it was.
C3_NoSelfOrDuplicateFollow ==
    /\ [](\A x \in DOMAIN follows : x[1] # x[2] /\ CopiesIn(x, follows) = 1)
    /\ [][\A c \in Clients, csrf \in BOOLEAN :
            (endpoint' = "start_following" /\ g_user(c) # None
               /\ start_following(c, g_user(c), csrf)) =>
                /\ response' = Redirect("/", 0, "You cannot follow yourself!")
                /\ follows' = follows
        ]_vars

\* a logged-in user has just asked to follow themselves
C3_Witness ==
    /\ endpoint = "start_following"
    /\ response.flash = "You cannot follow yourself!"
    /\ \E c \in Clients : g_user(c) # None

\* C4: for a user and a message of somebody else, toggling twice gives back
\* the likes relation it started from, has_liked flipping at each toggle,
\* and the handler applies exactly that toggle; for a message of their own
\* the request never changes likes and (past the forgery guard) is answered
\* "Cannot like your own messages!"; no like edge joins a user to a message
\* of their own.
C4_ToggleIsInvolution ==
    /\ [](\A u \in DOMAIN users, m \in DOMAIN messages :
            messages[m].user_id # u =>
                LET r1 == toggle(likes, u, m)
                    r2 == toggle(r1.table, u, m)
                IN  /\ r1.ok /\ r2.ok
                    /\ has_liked(r1.table, u, m) = ~has_liked(likes, u, m)
                    /\ has_liked(r2.table, u, m) = has_liked(likes, u, m)
                    /\ r2.table = likes)
    /\ [](\A x \in DOMAIN likes :
            x[2] \in DOMAIN messages => messages[x[2]].user_id # x[1])
    /\ [][\A c \in Clients, m \in DOMAIN messages, csrf \in BOOLEAN :
            LET u == g_user(c)
            IN  (endpoint' = "toggle_message_like" /\ u # None
                   /\ toggle_message_like(c, m, csrf)) =>
                  IF messages[m].user_id = u
                  THEN /\ likes' = likes
                       /\ csrf => response' =
                             Redirect("origin_url", 0,
                                      "Cannot like your own messages!")
                  ELSE csrf =>
                         /\ likes' = toggle(likes, u, m).table
                         /\ has_liked(likes', u, m) = ~has_liked(likes, u, m)
        ]_vars

\* a like has just been toggled off again
C4_Witness ==
    /\ endpoint = "toggle_message_like"
    /\ response = Redirect("origin_url", 0, "")
    /\ messages # <<>>
    /\ likes = EmptyBag

\* every message's owner, both ends of every follow edge, and the user and
\* the message of every like edge exist
ReferentialIntegrity ==
    /\ \A m \in DOMAIN messages : messages[m].user_id \in DOMAIN users
    /\ \A x \in DOMAIN follows : x[1] \in DOMAIN users /\ x[2] \in DOMAIN users
    /\ \A x \in DOMAIN likes : x[1] \in DOMAIN users /\ x[2] \in DOMAIN messages

\* C5: every reference names an existing row; once an account deletion has
\* gone through, the user, the messages the user owned, the follow edges at
\* either end of the user and the likes by the user are gone; once a message
\* deletion has gone through, the message and the likes of it are gone.
C5_DeletionCascades ==
    /\ []ReferentialIntegrity
    /\ [][\A c \in Clients :
            LET u == g_user(c)
            IN  (endpoint' = "delete_user" /\ u # None
                   /\ delete_user(c, TRUE)) =>
                  /\ u \notin DOMAIN users'
                  /\ \A m \in DOMAIN messages : messages[m].user_id = u =>
                        /\ m \notin DOMAIN messages'
                        /\ \A x \in DOMAIN likes' : x[2] # m
                  /\ \A x \in DOMAIN follows' : x[1] # u /\ x[2] # u
                  /\ \A x \in DOMAIN likes' : x[1] # u
        ]_vars
    /\ [][\A c \in Clients, m \in DOMAIN messages :
            (endpoint' = "delete_message" /\ g_user(c) # None
               /\ owns_message(g_user(c), m) /\ delete_message(c, m, TRUE)) =>
                  /\ m \notin DOMAIN messages'
                  /\ \A x \in DOMAIN likes' : x[2] # m
        ]_vars

\* an account has just been deleted, another user remains, and messages
\* had been posted before
C5_Witness ==
    /\ endpoint = "delete_user"
    /\ response = Redirect("/signup", 0, "")
    /\ users # <<>>
    /\ nextMsgId > 1

\* the limits the feed query is examined with: the one of the code, and
\* those small enough to cut a feed of the model short
Limits == (1..MaxMsgs) \cup {FEED_LIMIT}

\* a feed of user u cut at n is made of messages of u and of the users u
\* follows, all of them when they are at most n and otherwise the n latest,
\* latest first
FeedOK(f, u, n) ==
    LET wanted == {m \in DOMAIN messages :
                      \/ messages[m].user_id = u
                      \/ is_following(follows, u, messages[m].user_id)}
        shown == {f[i] : i \in 1..Len(f)}
    IN  /\ shown \subseteq wanted
        /\ Cardinality(shown) = Len(f)
        /\ Cardinality(wanted) <= n => shown = wanted
        /\ Cardinality(wanted) > n =>
              /\ Len(f) = n
              /\ \A m \in wanted \ shown, k \in shown :
                    messages[k].timestamp >= messages[m].timestamp
        /\ \A i, j \in 1..Len(f) :
              i < j => messages[f[i]].timestamp >= messages[f[j]].timestamp

\* C6: whatever the feed query returns for a logged-in user is made of the
\* messages of that user and of the users they follow, all of them up to
\* the limit and otherwise the latest, latest first; the home page hands the
\* template one such list cut at 100, and none to an anonymous principal.
C6_HomeFeed ==
    /\ [](\A c \in Clients, n \in Limits :
            g_user(c) # None =>
                /\ homeFeed(database, g_user(c), n) # {}
                /\ \A f \in homeFeed(database, g_user(c), n) :
                      FeedOK(f, g_user(c), n))
    /\ [][\A c \in Clients :
            (endpoint' = "homepage" /\ homepage(c)) =>
                IF g_user(c) # None
                THEN /\ response'.body = "home.html"
                     /\ FeedOK(response'.messages, g_user(c), FEED_LIMIT)
                ELSE /\ response'.body = "home-anon.html"
                     /\ response'.messages = <<>>
        ]_vars

\* the home page has just listed a message of the user and one of somebody
\* the user follows, of different age
C6_Witness ==
    /\ endpoint = "homepage"
    /\ response.body = "home.html"
    /\ Len(response.messages) = 2
    /\ messages[response.messages[1]].user_id #
           messages[response.messages[2]].user_id
    /\ messages[response.messages[1]].timestamp >
           messages[response.messages[2]].timestamp

\* C7: a request of a logged-in user to delete somebody else's message is
\* answered 401 and changes no table; a message goes away only in a
\* delete_message of its owner or in the owner's delete_user.
C7_OnlyOwnerDeletes ==
    /\ [][\A c \in Clients, m \in DOMAIN messages, csrf \in BOOLEAN :
            (endpoint' = "delete_message" /\ g_user(c) # None
               /\ messages[m].user_id # g_user(c)
               /\ delete_message(c, m, csrf)) =>
                  /\ response' = Abort(401)
                  /\ persisted' = persisted
        ]_vars
    /\ [][\A m \in DOMAIN messages :
            m \notin DOMAIN messages' =>
                \E c \in Clients :
                    /\ g_user(c) = messages[m].user_id
                    /\ \/ endpoint' = "delete_message"
                          /\ delete_message(c, m, TRUE)
                       \/ endpoint' = "delete_user" /\ delete_user(c, TRUE)
        ]_vars

\* a delete_message has just been refused while every client is logged in
\* as a user who owns none of the messages
C7_Witness ==
    /\ endpoint = "delete_message"
    /\ response = Abort(401)
    /\ messages # <<>>
    /\ \A c \in Clients :
          /\ g_user(c) # None
          /\ \A m \in DOMAIN messages : messages[m].user_id # g_user(c)

\* C8: while the principal is anonymous (no session entry, or one naming a
\* user that no longer exists), logout, follow, unfollow, profile edit,
\* account deletion, post, message deletion and like toggle are all
\* answered as not permitted and change no table.
C8_AnonymousRejected ==
    [][\A c \in Clients :
          g_user(c) = None =>
            \A csrf \in BOOLEAN :
              (\/ logout(c, csrf)
               \/ \E id \in UrlUserIds : start_following(c, id, csrf)
               \/ \E id \in UrlUserIds : stop_following(c, id, csrf)
               \/ \E n \in Usernames, e \in Emails, p \in Attempts :
                     edit_profile(c, n, e, p, csrf)
               \/ delete_user(c, csrf)
               \/ \E t \in Times : add_message(c, t, csrf)
               \/ \E m \in UrlMsgIds : delete_message(c, m, csrf)
               \/ \E m \in UrlMsgIds : toggle_message_like(c, m, csrf)) =>
                  /\ IsUnauthorized(response')
                  /\ persisted' = persisted
      ]_vars

\* C9: a request whose forgery token is missing or wrong changes neither
\* the tables nor the session entry of its client, whichever of logout,
\* follow, unfollow, profile edit, account deletion, post, message
\* deletion, like toggle and signup it is.
C9_NoTokenNoChange ==
    [][\A c \in Clients :
          (\/ logout(c, FALSE)
           \/ \E id \in UrlUserIds : start_following(c, id, FALSE)
           \/ \E id \in UrlUserIds : stop_following(c, id, FALSE)
           \/ \E n \in Usernames, e \in Emails, p \in Attempts :
                 edit_profile(c, n, e, p, FALSE)
           \/ delete_user(c, FALSE)
           \/ \E t \in Times : add_message(c, t, FALSE)
           \/ \E m \in UrlMsgIds : delete_message(c, m, FALSE)
           \/ \E m \in UrlMsgIds : toggle_message_like(c, m, FALSE)
           \/ \E n \in Usernames, e \in Emails, p \in Passwords :
                 signup(c, n, e, p, FALSE)) =>
              /\ persisted' = persisted
              /\ session' = session
      ]_vars

\* C10: of two requests handled at the same time that both insert the same
\* follow edge or the same like edge, neither ends in an uncaught
\* IntegrityError, and the edge is there once.
C10_NoUncaughtIntegrityError ==
    /\ response # UncaughtIntegrityError
    /\ \A x \in DOMAIN follows : CopiesIn(x, follows) = 1
    /\ \A x \in DOMAIN likes : CopiesIn(x, likes) = 1
====
